---------------------------- MODULE Spec2Model ----------------------------
(***************************************************************************)
(* A model of dynaconf-aws-loader: the path decoder (util.slashes_to_dict), *)
(* the environment list (loader.build_env_list), the two fetch functions   *)
(* and loader.load, which writes what it fetched into the settings object. *)
(*                                                                         *)
(* Strings are sequences of one-character tokens, so that strip, split,    *)
(* lower and the f-string path building are computed, not assumed.         *)
(* Python values are tagged records: None, Str, PyInt, PyBool, Dict; a raised  *)
(* exception is the value Raise(e).                                        *)
(***************************************************************************)
EXTENDS Integers, Sequences, FiniteSets, TLC

VARIABLES
    dData,      \* decoder: the records handed to slashes_to_dict
    dOut,       \* decoder: what the call returned or raised; Pending before
    dGrouped,   \* decoder: the same for the records' pairs held by one mapping
    elObj,      \* build_env_list: the settings it reads
    elEnv,      \* build_env_list: the env argument
    elOut,      \* build_env_list: the list returned; Pending before
    fStore,     \* fetch: the parameters the store holds, in the order it lists them
    fArgs,      \* fetch: project_prefix, env_name, namespace_prefix, key, silent
    fOut,       \* fetch: the call made, the store's fault, what was returned and logged
    pKey,       \* pull_from_env_or_obj: key_name
    pEnv,       \* pull_from_env_or_obj: env
    pObj,       \* pull_from_env_or_obj: the keys obj holds
    pOut,       \* pull_from_env_or_obj: the value returned and obj after; Pending before
    conf,       \* load: the configuration keys of the settings object
    sdata,      \* load: the values the settings object holds
    osenv,      \* load: os.environ
    conf0,      \* load: the configuration keys as they were before the call
    ssm,        \* load: the parameters the store holds
    region,     \* load: whether boto3 finds a region for the client
    args,       \* load: env, silent, key
    pc,         \* load: where the call is
    project_prefix,   \* load: the project prefix resolved
    namespace_prefix, \* load: the namespace resolved
    envList,    \* load: env_list
    idx,        \* load: the position of env_name in env_list
    exc,        \* load: the exception the call raised, "" if none
    logs,       \* load: the log records written
    storeCalls, \* load: the store calls issued
    fetches,    \* load: history of the fetches and what each returned
    collected,  \* load: the records the last subtree fetch had when its paging ended
    writes      \* load: history of the writes into the settings object

decVars == <<dData, dOut, dGrouped>>
elVars == <<elObj, elEnv, elOut>>
fVars == <<fStore, fArgs, fOut>>
pVars == <<pKey, pEnv, pObj, pOut>>
loadVars == <<conf, sdata, osenv, conf0, ssm, region, args, pc, project_prefix,
              namespace_prefix, envList, idx, exc, logs, storeCalls, fetches,
              collected, writes>>

(***************************************************************************)
(* Python values                                                           *)
(***************************************************************************)
None == [t |-> "none"]
Str(s) == [t |-> "str", s |-> s]
PyInt(n) == [t |-> "int", n |-> n]
PyBool(b) == [t |-> "bool", b |-> b]
Dict(m) == [t |-> "dict", m |-> m]
Raise(e) == [t |-> "raise", e |-> e]
PyList(l) == [t |-> "list", l |-> l]
Pending == [t |-> "pending"]

EmptyMap == [k \in {} |-> None]
EmptyDict == Dict(EmptyMap)

IsDict(v) == v.t = "dict"
IsRaise(v) == v.t = "raise"

\* bool(v) of Python: None, "", 0, False and {} are falsy
Truthy(v) ==
    CASE v.t = "none" -> FALSE
      [] v.t = "str"  -> v.s # <<>>
      [] v.t = "int"  -> v.n # 0
      [] v.t = "bool" -> v.b
      [] v.t = "dict" -> DOMAIN v.m # {}
      [] OTHER        -> TRUE

(***************************************************************************)
(* Strings                                                                 *)
(***************************************************************************)
Slash == "/"

RECURSIVE LStrip(_, _)
LStrip(s, c) == IF s # <<>> /\ Head(s) = c THEN LStrip(Tail(s), c) ELSE s

RECURSIVE RStrip(_, _)
RStrip(s, c) ==
    IF s # <<>> /\ s[Len(s)] = c THEN RStrip(SubSeq(s, 1, Len(s) - 1), c) ELSE s

\* str.strip(c)
Strip(s, c) == RStrip(LStrip(s, c), c)

\* str.split(c): always at least one segment, empty segments kept
RECURSIVE SplitFrom(_, _, _)
SplitFrom(s, c, cur) ==
    IF s = <<>> THEN <<cur>>
    ELSE IF Head(s) = c THEN <<cur>> \o SplitFrom(Tail(s), c, <<>>)
    ELSE SplitFrom(Tail(s), c, Append(cur, Head(s)))

Split(s, c) == SplitFrom(s, c, <<>>)

\* c.join(segs)
RECURSIVE Join(_, _)
Join(segs, c) ==
    IF segs = <<>> THEN <<>>
    ELSE IF Len(segs) = 1 THEN segs[1]
    ELSE segs[1] \o <<c>> \o Join(Tail(segs), c)

\* sub in s, for two strings
Contains(s, sub) ==
    \E i \in 1..(Len(s) + 1) :
        /\ i + Len(sub) - 1 <= Len(s)
        /\ SubSeq(s, i, i + Len(sub) - 1) = sub

StartsWith(s, pre) == Len(pre) <= Len(s) /\ SubSeq(s, 1, Len(pre)) = pre

Space == " "

\* str.lower(), on the letters the model uses in upper case
LowerChar(c) ==
    CASE c = "D" -> "d"
      [] c = "F" -> "f"
      [] c = "T" -> "t"
      [] OTHER   -> c

Lower(s) == [i \in DOMAIN s |-> LowerChar(s[i])]

(***************************************************************************)
(* The settings object's configuration: obj.get(key, default)              *)
(***************************************************************************)
ObjGet(obj, key, default) == IF obj[key] = None THEN default ELSE obj[key]

(***************************************************************************)
(* util.slashes_to_dict                                                    *)
(*                                                                         *)
(* The decoder's state is the tree built so far and cur, the path from     *)
(* the root to the mapping cur_dict refers to.  cur_dict only ever moves   *)
(* down, and assignments only happen at it, so the path stays valid.       *)
(***************************************************************************)
RECURSIVE GetAt(_, _)
GetAt(node, path) ==
    IF path = <<>> THEN node ELSE GetAt(node.m[Head(path)], Tail(path))

\* the tree with node.m[field] = value at the mapping found at path
RECURSIVE SetAt(_, _, _, _)
SetAt(node, path, field, value) ==
    IF path = <<>>
    THEN Dict([k \in DOMAIN node.m \cup {field} |->
                 IF k = field THEN value ELSE node.m[k]])
    ELSE Dict([k \in DOMAIN node.m |->
                 IF k = Head(path)
                 THEN SetAt(node.m[k], Tail(path), field, value)
                 ELSE node.m[k]])

\* cur_dict[field] = value  (line 25)
AssignLeaf(st, field, value) ==
    IF IsDict(GetAt(st.tree, st.cur))
    THEN [st EXCEPT !.tree = SetAt(st.tree, st.cur, field, value)]
    ELSE [st EXCEPT !.err = "TypeError"]

\* a decoder that writes cur_dict[field] = {} where the code uses setdefault
DescendFresh(st, field) ==
    LET obj == GetAt(st.tree, st.cur) IN
    IF ~IsDict(obj) THEN [st EXCEPT !.err = "TypeError"]
    ELSE [st EXCEPT !.tree = SetAt(st.tree, st.cur, field, EmptyDict),
                    !.cur = Append(st.cur, field)]

\* cur_dict = cur_dict.setdefault(field, {})  (line 27)
Descend(st, field) ==
    LET obj == GetAt(st.tree, st.cur) IN
    IF ~IsDict(obj) THEN [st EXCEPT !.err = "AttributeError"]
    ELSE IF field \in DOMAIN obj.m THEN [st EXCEPT !.cur = Append(st.cur, field)]
    ELSE [st EXCEPT !.tree = SetAt(st.tree, st.cur, field, EmptyDict),
                    !.cur = Append(st.cur, field)]

\* for idx, field in enumerate(segments)  (lines 22-27)
RECURSIVE WalkSegments(_, _, _)
WalkSegments(st, segs, value) ==
    IF st.err # "" THEN st
    ELSE IF Len(segs) = 1 THEN AssignLeaf(st, segs[1], value)
    ELSE WalkSegments(Descend(st, segs[1]), Tail(segs), value)

\* for key, value in line.items()  (lines 18-27); cur_dict is not reset here
RECURSIVE DecodeItems(_, _)
DecodeItems(st, items) ==
    IF items = <<>> \/ st.err # "" THEN st
    ELSE DecodeItems(
            WalkSegments(st, Split(Strip(items[1][1], Slash), Slash), items[1][2]),
            Tail(items))

\* for line in data: cur_dict = result  (lines 16-17)
RECURSIVE DecodeLines(_, _)
DecodeLines(st, data) ==
    IF data = <<>> \/ st.err # "" THEN st
    ELSE DecodeLines(DecodeItems([st EXCEPT !.cur = <<>>], data[1]), Tail(data))

slashes_to_dict(data) ==
    LET st == DecodeLines([tree |-> EmptyDict, cur |-> <<>>, err |-> ""], data) IN
    IF st.err # "" THEN Raise(st.err) ELSE st.tree

(***************************************************************************)
(* The decoder applied to bounded inputs                                   *)
(***************************************************************************)
MaxRecords == 3

DecPaths ==
    { <<"/", "a">>,
      <<"a", "/">>,
      <<"/", "a", "/", "b">>,
      <<"/", "a", "/", "c">>,
      <<"/", "b", "/", "a", "/">>,
      <<"/", "a", "/", "b", "/", "c">>,
      <<"a", "/", "/", "b">>,
      <<>> }

DecValues == { Str(<<"x">>), Str(<<"y">>) }

\* a single-key record {path: value}
Record(p, v) == << <<p, v>> >>

DecRecords == { Record(p, v) : p \in DecPaths, v \in DecValues }

DecInputs == UNION { [1..n -> DecRecords] : n \in 0..MaxRecords }

\* line[key] = value on a mapping that keeps insertion order: a key that is
\* there keeps its place and takes the new value
PutItem(line, key, value) ==
    IF \E i \in DOMAIN line : line[i][1] = key
    THEN [i \in DOMAIN line |-> IF line[i][1] = key THEN <<key, value>> ELSE line[i]]
    ELSE Append(line, <<key, value>>)

\* one mapping made of the pairs of the records, in their order
RECURSIVE AsOneMapping(_, _)
AsOneMapping(line, data) ==
    IF data = <<>> THEN line
    ELSE AsOneMapping(PutItem(line, data[1][1][1], data[1][1][2]), Tail(data))

DecodeInit ==
    /\ dData \in DecInputs
    /\ dOut = Pending
    /\ dGrouped = Pending

\* the records decoded one mapping each, and as a single mapping
Decode ==
    /\ dOut = Pending
    /\ dOut' = slashes_to_dict(dData)
    /\ dGrouped' = slashes_to_dict(<<AsOneMapping(<<>>, dData)>>)
    /\ UNCHANGED dData


(***************************************************************************)
(* loader.build_env_list                                                   *)
(***************************************************************************)
DefaultEnvName == <<"d", "e", "f", "a", "u", "l", "t">>

\* env_list after lines 47-51
EnvListDefault(obj) ==
    IF ObjGet(obj, "SSM_LOAD_DEFAULT_ENV_FOR_DYNACONF", PyBool(TRUE)) = PyBool(TRUE)
    THEN LET name == ObjGet(obj, "DEFAULT_ENV_FOR_DYNACONF", Str(DefaultEnvName)) IN
         IF Truthy(name) /\ Lower(name.s) # <<>> THEN <<Lower(name.s)>> ELSE <<>>
    ELSE <<>>

\* env_list after lines 53-55
EnvListManual(env_list, env) ==
    IF Truthy(env) /\ (\A i \in DOMAIN env_list : env_list[i] # Lower(env.s))
    THEN Append(env_list, Lower(env.s))
    ELSE env_list

\* map(str.strip, env_list)  (line 58)
StripAll(env_list) == [i \in DOMAIN env_list |-> Strip(env_list[i], Space)]

build_env_list(obj, env) == StripAll(EnvListManual(EnvListDefault(obj), env))

(***************************************************************************)
(* build_env_list applied to bounded inputs                                *)
(***************************************************************************)
Testing == <<"T", "e", "s", "t", "i", "n", "g">>

ElFlags == { None, PyBool(TRUE), PyBool(FALSE) }

ElDefaults ==
    { None, Str(<<>>), Str(<<"f">>), Str(<<"F">>), Str(<<"f", " ">>) }

ElEnvs ==
    { None, Str(<<>>), Str(<<"d">>), Str(<<"D">>), Str(<<"f">>), Str(<<"F">>),
      Str(<<" ", "f">>), Str(DefaultEnvName), Str(Testing) }

EnvListInit ==
    /\ elObj \in { [SSM_LOAD_DEFAULT_ENV_FOR_DYNACONF |-> f, DEFAULT_ENV_FOR_DYNACONF |-> d] :
                     f \in ElFlags, d \in ElDefaults }
    /\ elEnv \in ElEnvs
    /\ elOut = Pending

BuildEnvList ==
    /\ elOut = Pending
    /\ elOut' = PyList(build_env_list(elObj, elEnv))
    /\ UNCHANGED <<elObj, elEnv>>


(***************************************************************************)
(* The parameter store behind the boto3 client                             *)
(*                                                                         *)
(* A store is a sequence of [name, value] parameters with unique names.    *)
(* A call either answers or fails with the fault the caller's environment  *)
(* decides: a ClientError (ParameterNotFound, AccessDenied) or a           *)
(* BotoCoreError (EndpointConnectionError).                                *)
(***************************************************************************)
NoFault == "none"
ClientErrors == { "ParameterNotFound", "AccessDenied" }
BotoCoreErrors == { "EndpointConnectionError" }
Faults == ClientErrors \cup BotoCoreErrors

\* client.get_parameter(Name=path): the parameter, or Raise
get_parameter(store, path, fault) ==
    LET hits == SelectSeq(store, LAMBDA prm : prm.name = path) IN
    IF fault # NoFault THEN Raise(fault)
    ELSE IF hits = <<>> THEN Raise("ParameterNotFound")
    ELSE [t |-> "response", Parameter |-> hits[1]]

\* the parameters in the hierarchy under path (Recursive=True)
UnderPath(store, path) ==
    SelectSeq(store, LAMBDA prm : StartsWith(prm.name, Append(path, Slash)))

\* the number of parameters the store returns in one page
PageSize == 1

\* the pages the paginator asks for: at least one, the last may be short
NumPages(params) ==
    IF params = <<>> THEN 1 ELSE (Len(params) + PageSize - 1) \div PageSize

\* the parameters of the pages before the given one
PagesBefore(params, page) ==
    LET n == (page - 1) * PageSize
    IN SubSeq(params, 1, IF n < Len(params) THEN n ELSE Len(params))

\* the pages at which the given fault can strike
FaultPages(store, path, fault) ==
    IF fault = NoFault THEN {1} ELSE 1..NumPages(UnderPath(store, path))

(***************************************************************************)
(* dynaconf's parse_conf_data(..., tomlfy=True), as far as the values of   *)
(* the model go: digits become integers, "@bool ..." a boolean, any other  *)
(* string stays; a mapping is parsed value by value.                       *)
(***************************************************************************)
BoolTrueRaw == <<"@", "b", "o", "o", "l", " ", "T", "r", "u", "e">>
BoolFalseRaw == <<"@", "b", "o", "o", "l", " ", "F", "a", "l", "s", "e">>

ParseStr(s) ==
    CASE s = <<"0">> -> PyInt(0)
      [] s = <<"1">> -> PyInt(1)
      [] s = <<"2">> -> PyInt(2)
      [] s = <<"3">> -> PyInt(3)
      [] s = <<"4">> -> PyInt(4)
      [] s = <<"5">> -> PyInt(5)
      [] s = BoolTrueRaw  -> PyBool(TRUE)
      [] s = BoolFalseRaw -> PyBool(FALSE)
      [] OTHER -> Str(s)

RECURSIVE parse_conf_data(_)
parse_conf_data(v) ==
    IF IsDict(v) THEN Dict([k \in DOMAIN v.m |-> parse_conf_data(v.m[k])])
    ELSE IF v.t = "str" THEN ParseStr(v.s)
    ELSE v

(***************************************************************************)
(* loader._fetch_single_parameter and loader._fetch_all_parameters         *)
(*                                                                         *)
(* Each returns [ret, logs, calls]: the value returned or Raise(e), the    *)
(* log records written and the store calls issued.                         *)
(***************************************************************************)
\* f"/{project_prefix}/{env_name}" and, with a namespace, f"{path}/{namespace_prefix}"
BasePath(project, env, ns) ==
    LET path == <<Slash>> \o project \o <<Slash>> \o env IN
    IF ns # None THEN path \o <<Slash>> \o ns.s ELSE path

LogRec(level, what, path) == [level |-> level, what |-> what, path |-> path]
CallRec(op, path) == [op |-> op, path |-> path]

\* handlers that return None in strict mode too
OnFaultSwallow(fault, silent, path) ==
    [ret |-> None, logs |-> <<>>]

\* handlers that re-raise in tolerant mode too
OnFaultReraise(fault, silent, path) ==
    [ret |-> Raise(fault), logs |-> <<>>]

\* the except clauses of both functions (lines 221-233, 266-278)
OnFault(fault, silent, path) ==
    IF silent THEN [ret |-> None, logs |-> <<>>]
    ELSE IF fault \in ClientErrors
    THEN [ret |-> Raise(fault),
          logs |-> IF fault = "ParameterNotFound"
                   THEN <<LogRec("info", "does not exist", path)>> ELSE <<>>]
    ELSE [ret |-> Raise(fault),
          logs |-> <<LogRec("error", "could not connect", path)>>]

_fetch_single_parameter(store, fault, project, env, key, ns, silent) ==
    LET path == BasePath(project, env, ns) \o <<Slash>> \o key
        dbg == <<LogRec("debug", "load single", path)>>
        calls == <<CallRec("get_parameter", path)>>
        value == get_parameter(store, path, fault)
    IN  IF IsRaise(value)
        THEN LET h == OnFault(value.e, silent, path) IN
             [ret |-> h.ret, logs |-> dbg \o h.logs, calls |-> calls]
        ELSE [ret |-> ParseStr(value.Parameter.value), logs |-> dbg, calls |-> calls]

\* x in c, for a key x: "yes", "no" or "err" (c is not iterable)
PyIn(x, c) ==
    CASE IsDict(c) -> IF x \in DOMAIN c.m THEN "yes" ELSE "no"
      [] c.t = "str" -> IF Contains(c.s, x) THEN "yes" ELSE "no"
      [] OTHER -> "err"

\* c[x]
PyIndex(c, x) == IF IsDict(c) THEN c.m[x] ELSE Raise("TypeError")

\* if <tested> and seg in result: result = result[seg]
DescendIf(result, tested, seg) ==
    IF IsRaise(result) \/ ~tested THEN result
    ELSE CASE PyIn(seg, result) = "yes" -> PyIndex(result, seg)
           [] PyIn(seg, result) = "no"  -> result
           [] OTHER -> Raise("TypeError")

\* a pruning that tries the environment segment whether or not the project
\* segment was found
PruneFlat(result, project, env, ns) ==
    LET r1 == DescendIf(result, Truthy(result), project)
        r2 == DescendIf(r1, Truthy(r1), env)
    IN  DescendIf(r2, ns # None, IF ns # None THEN ns.s ELSE <<>>)

\* lines 282-292
Prune(result, project, env, ns) ==
    IF Truthy(result) /\ PyIn(project, result) = "yes"
    THEN LET r1 == PyIndex(result, project)
             r2 == DescendIf(r1, Truthy(r1), env)
         IN  DescendIf(r2, ns # None, IF ns # None THEN ns.s ELSE <<>>)
    ELSE result

\* data.append({parameter["Name"]: parameter["Value"]})  (line 264)
AsRecords(params) == [i \in DOMAIN params |-> Record(params[i].name, Str(params[i].value))]

\* an except clause that, in tolerant mode, lets the function go on to decode
\* what the pages before the failing one delivered
LeavesOnlyWhenStrict(fault, silent, data) == ~silent

\* whether the except clause leaves the function (lines 266-278): it always
\* does, by return or by raise, so that data is decoded only after every page
LeavesOnFault(fault, silent, data) == TRUE

\* the store fails with fault, if any, when the paginator asks for the page;
\* data is the list as it is when the loop over the pages ends or fails
_fetch_all_parameters(store, fault, page, project, env, ns, silent) ==
    LET path == BasePath(project, env, ns)
        dbg == <<LogRec("debug", "load all", path)>>
        calls == <<CallRec("get_parameters_by_path", path)>>
        params == UnderPath(store, path)
        data == AsRecords(IF fault # NoFault THEN PagesBefore(params, page)
                          ELSE params)
        tree == slashes_to_dict(data)
    IN  IF fault # NoFault /\ LeavesOnFault(fault, silent, data)
        THEN LET h == OnFault(fault, silent, path) IN
             [ret |-> h.ret, logs |-> dbg \o h.logs, calls |-> calls,
              data |-> data]
        ELSE IF IsRaise(tree)
        THEN [ret |-> tree, logs |-> dbg, calls |-> calls, data |-> data]
        ELSE [ret |-> Prune(parse_conf_data(tree), project, env, ns),
              logs |-> dbg, calls |-> calls, data |-> data]

(***************************************************************************)
(* The stores and coordinates of the model                                 *)
(***************************************************************************)
Param(name, value) == [name |-> name, value |-> value]

\* "/" + "/".join(segs)
PathOf(segs) == <<Slash>> \o Join(segs, Slash)

ProjP == <<"p">>
ProjSlashed == <<"d", "/", "p">>
ProjMissing == <<"q">>
EnvD == <<"d">>
NsN == <<"n">>
NsMissing == <<"z">>
KeyK == <<"k">>

\* a default and a development environment, each with namespaced overrides
StoreLayered ==
    << Param(PathOf(<<ProjP, DefaultEnvName, <<"a">>>>), <<"1">>),
       Param(PathOf(<<ProjP, DefaultEnvName, <<"b">>, <<"c">>>>), <<"2">>),
       Param(PathOf(<<ProjP, DefaultEnvName, NsN, <<"b">>, <<"c">>>>), <<"3">>),
       Param(PathOf(<<ProjP, DefaultEnvName, NsN, <<"d">>>>), <<"4">>),
       Param(PathOf(<<ProjP, EnvD, <<"b">>, <<"c">>>>), <<"5">>),
       Param(PathOf(<<ProjP, EnvD, NsN, <<"k">>>>), <<"x">>) >>

\* the key k: only in the development environment, with and without namespace;
\* besides it a key that contains the namespace's name
StoreKeyInOverride ==
    << Param(PathOf(<<ProjP, DefaultEnvName, <<"a">>>>), <<"1">>),
       Param(PathOf(<<ProjP, EnvD, KeyK>>), <<"x">>),
       Param(PathOf(<<ProjP, EnvD, NsN, KeyK>>), <<"y">>),
       Param(PathOf(<<ProjP, EnvD, <<"u", "n">>>>), <<"2">>) >>

\* the key k in both environments, the default's value coercing to False
StoreKeyInBoth ==
    << Param(PathOf(<<ProjP, DefaultEnvName, KeyK>>), BoolFalseRaw),
       Param(PathOf(<<ProjP, DefaultEnvName, NsN, KeyK>>), <<"y">>),
       Param(PathOf(<<ProjP, EnvD, KeyK>>), <<"x">>) >>

\* a parameter that is both a value and the parent of another
StoreLeafAndParent ==
    << Param(PathOf(<<ProjP, EnvD, <<"a">>>>), <<"x">>),
       Param(PathOf(<<ProjP, EnvD, <<"a">>, <<"b">>>>), <<"y">>) >>

\* a project prefix of two segments
StoreSlashed ==
    << Param(PathOf(<<ProjSlashed, EnvD, KeyK>>), <<"x">>),
       Param(PathOf(<<ProjSlashed, EnvD, NsN, KeyK>>), <<"y">>) >>

StoreEmpty == <<>>

(***************************************************************************)
(* The fetch functions applied to bounded inputs                           *)
(***************************************************************************)
FetchStores ==
    { StoreLayered, StoreKeyInOverride, StoreKeyInBoth, StoreLeafAndParent,
      StoreSlashed, StoreEmpty }

FetchInit ==
    /\ fStore \in FetchStores
    /\ fArgs \in [project : {ProjP, ProjSlashed, ProjMissing},
                   env : {EnvD, DefaultEnvName},
                   ns : {None, Str(NsN), Str(NsMissing)},
                   key : {KeyK},
                   silent : BOOLEAN]
    /\ fOut = Pending

FetchSingle ==
    /\ fOut = Pending
    /\ \E fault \in Faults \cup {NoFault} :
         fOut' = [op |-> "single", fault |-> fault,
                  res |-> _fetch_single_parameter(fStore, fault, fArgs.project,
                              fArgs.env, fArgs.key, fArgs.ns, fArgs.silent)]
    /\ UNCHANGED <<fStore, fArgs>>

FetchAll ==
    /\ fOut = Pending
    /\ \E fault \in Faults \cup {NoFault} :
       \E page \in FaultPages(fStore,
                      BasePath(fArgs.project, fArgs.env, fArgs.ns), fault) :
         fOut' = [op |-> "all", fault |-> fault,
                  res |-> _fetch_all_parameters(fStore, fault, page, fArgs.project,
                              fArgs.env, fArgs.ns, fArgs.silent)]
    /\ UNCHANGED <<fStore, fArgs>>

(***************************************************************************)
(* The settings object, as the loader uses it: set replaces a key, update  *)
(* deep-merges a tree, later values winning at conflicting leaf paths.     *)
(***************************************************************************)
RECURSIVE DeepMerge(_, _)
DeepMerge(a, b) ==
    IF IsDict(a) /\ IsDict(b)
    THEN Dict([k \in DOMAIN a.m \cup DOMAIN b.m |->
                 IF k \notin DOMAIN b.m THEN a.m[k]
                 ELSE IF k \notin DOMAIN a.m THEN b.m[k]
                 ELSE DeepMerge(a.m[k], b.m[k])])
    ELSE b

SettingsUpdate(data, tree) == DeepMerge(data, tree)

SettingsSet(data, key, value) == SetAt(data, <<>>, key, value)

(***************************************************************************)
(* util.pull_from_env_or_obj and util.NamespaceFilter                      *)
(***************************************************************************)
\* a lookup that asks obj first and env only when obj holds nothing
pull_from_obj_or_env(key_name, env, obj) ==
    IF obj[key_name] = None
    THEN [value |-> env[key_name], obj |-> [obj EXCEPT ![key_name] = env[key_name]]]
    ELSE [value |-> obj[key_name], obj |-> obj]

pull_from_env_or_obj(key_name, env, obj) ==
    IF env[key_name] = None
    THEN [value |-> obj[key_name], obj |-> obj]
    ELSE [value |-> env[key_name], obj |-> [obj EXCEPT ![key_name] = env[key_name]]]

\* a filter that drops only the key equal to the prefix
NamespaceFilterExact(prefix, data) ==
    Dict([k \in { j \in DOMAIN data.m : j # prefix } |-> data.m[k]])

\* NamespaceFilter(prefix)(data)
NamespaceFilter(prefix, data) ==
    Dict([k \in { j \in DOMAIN data.m : ~Contains(j, prefix) } |-> data.m[k]])

(***************************************************************************)
(* pull_from_env_or_obj applied to bounded inputs                          *)
(***************************************************************************)
PullKeys == {"SSM_PARAMETER_PROJECT_PREFIX_FOR_DYNACONF",
             "SSM_PARAMETER_NAMESPACE_FOR_DYNACONF"}

\* absent, the empty string and two values
PullValues == {None, Str(<<>>), Str(<<"p">>), Str(<<"q">>)}

PullInit ==
    /\ pKey \in PullKeys
    /\ pEnv \in [PullKeys -> PullValues]
    /\ pObj \in [PullKeys -> PullValues]
    /\ pOut = Pending

Pull ==
    /\ pOut = Pending
    /\ pOut' = [t |-> "returned", res |-> pull_from_env_or_obj(pKey, pEnv, pObj)]
    /\ UNCHANGED <<pKey, pEnv, pObj>>

(***************************************************************************)
(* loader.load, one action for each store call and what follows it       *)
(***************************************************************************)
PrefixKey == "SSM_PARAMETER_PROJECT_PREFIX_FOR_DYNACONF"
NamespaceKey == "SSM_PARAMETER_NAMESPACE_FOR_DYNACONF"

InitialData == Dict([k \in {<<"a">>} |-> Str(<<"l">>)])

LoadStores == { StoreLayered, StoreKeyInOverride, StoreKeyInBoth, StoreLeafAndParent }

LoadInit ==
    /\ conf \in [SSM_PARAMETER_PROJECT_PREFIX_FOR_DYNACONF : {None, Str(ProjP)},
                  SSM_PARAMETER_NAMESPACE_FOR_DYNACONF : {None, Str(NsN)},
                  SSM_LOAD_DEFAULT_ENV_FOR_DYNACONF : {None, PyBool(FALSE)},
                  DEFAULT_ENV_FOR_DYNACONF : {None},
                  AWS_SSM_NAMESPACE_FILTER_STRATEGY : {None, Str(NsN)},
                  current_env : {Str(EnvD)}]
    /\ osenv \in [SSM_PARAMETER_PROJECT_PREFIX_FOR_DYNACONF : {None, Str(ProjP)},
                   SSM_PARAMETER_NAMESPACE_FOR_DYNACONF : {None, Str(NsN)}]
    /\ conf[PrefixKey] = None \/ osenv[PrefixKey] = None
    /\ conf[NamespaceKey] = None \/ osenv[NamespaceKey] = None
    /\ conf0 = conf
    /\ sdata = InitialData
    /\ ssm \in LoadStores
    /\ region \in BOOLEAN
    /\ args \in [env : {None, Str(<<"D">>)}, silent : BOOLEAN, key : {None, Str(KeyK)}]
    /\ pc = "start"
    /\ project_prefix = None
    /\ namespace_prefix = None
    /\ envList = <<>>
    /\ idx = 0
    /\ exc = ""
    /\ logs = <<>>
    /\ storeCalls = <<>>
    /\ fetches = <<>>
    /\ collected = <<>>
    /\ writes = <<>>

\* a loader that re-raises NoRegionError in tolerant mode too
NoRegionAlwaysReraised(silent) == TRUE

\* except NoRegionError: whether load re-raises (lines 116-124)
NoRegionReraised(silent) == ~silent

\* lines 114-124: get_client, and what load does without a region
GetClient ==
    /\ pc = "start"
    /\ IF region
       THEN pc' = "resolve" /\ UNCHANGED <<exc, logs>>
       ELSE IF ~NoRegionReraised(args.silent)
       THEN /\ pc' = "returned"
            /\ logs' = Append(logs, LogRec("exception", "no region", <<>>))
            /\ UNCHANGED exc
       ELSE /\ pc' = "raised"
            /\ exc' = "NoRegionError"
            /\ UNCHANGED logs
    /\ UNCHANGED <<conf, sdata, osenv, conf0, ssm, region, args, project_prefix,
                   namespace_prefix, envList, idx, storeCalls, fetches,
                   collected, writes>>

\* lines 126-135: the prefixes and the environment list
Resolve ==
    /\ pc = "resolve"
    /\ LET r1 == pull_from_env_or_obj(PrefixKey, osenv, conf)
           r2 == pull_from_env_or_obj(NamespaceKey, osenv, r1.obj)
           envs == build_env_list(r2.obj, IF Truthy(args.env) THEN args.env
                                          ELSE r2.obj.current_env)
       IN  /\ conf' = r2.obj
           /\ project_prefix' = r1.value
           /\ namespace_prefix' = r2.value
           /\ IF r1.value = None
              THEN /\ pc' = "raised"
                   /\ exc' = "ValueError"
                   /\ UNCHANGED <<envList, idx>>
              ELSE /\ envList' = envs
                   /\ idx' = 1
                   /\ pc' = IF envs = <<>> THEN "returned" ELSE "env"
                   /\ UNCHANGED exc
    /\ UNCHANGED <<sdata, osenv, conf0, ssm, region, args, logs, storeCalls, fetches,
                   collected, writes>>

\* env_name of the iteration (lines 137-138)
EnvAtReversed(env_list, i) == Lower(env_list[Len(env_list) + 1 - i])

EnvAt(env_list, i) == Lower(env_list[i])

\* the loader identifier (lines 139-144)
LoaderIdentifier(env_name) ==
    [loader |-> "aws-ssm",
     identifier |-> BasePath(project_prefix.s, env_name, namespace_prefix),
     env |-> args.env]

\* where the loop goes after the iteration at i
AfterEnv(i) == IF i < Len(envList) THEN "env" ELSE "returned"

\* history: a fetch, what it returned, the settings before and after its write
FetchRec(i, kind, fault, ret, before, after) ==
    [i |-> i, kind |-> kind, fault |-> fault, ret |-> ret,
     before |-> before, after |-> after]
\* history: a write, the tree written and its provenance
WriteRec(i, kind, tree, ident) == [i |-> i, kind |-> kind, tree |-> tree, ident |-> ident]

\* lines 146-158: the single-key branch
SingleKeyWrite(data, key, value) ==
    IF Truthy(value) THEN SettingsSet(data, key, value) ELSE data

LoadKey ==
    /\ pc = "env"
    /\ args.key # None
    /\ \E fault \in Faults \cup {NoFault} :
         LET env_name == EnvAt(envList, idx)
             r == _fetch_single_parameter(ssm, fault, project_prefix.s, env_name,
                                          args.key.s, namespace_prefix, args.silent)
         IN  /\ logs' = logs \o r.logs
             /\ storeCalls' = storeCalls \o r.calls
             /\ IF IsRaise(r.ret)
                THEN /\ pc' = "raised"
                     /\ exc' = r.ret.e
                     /\ UNCHANGED <<sdata, writes>>
                ELSE /\ sdata' = SingleKeyWrite(sdata, args.key.s, r.ret)
                     /\ writes' = IF Truthy(r.ret)
                                  THEN Append(writes, WriteRec(idx, "single", r.ret,
                                                  LoaderIdentifier(env_name)))
                                  ELSE writes
                     /\ pc' = "returned"
                     /\ UNCHANGED exc
             /\ fetches' = Append(fetches,
                    FetchRec(idx, "single", fault, r.ret, sdata, sdata'))
    /\ UNCHANGED <<conf, osenv, conf0, ssm, region, args, project_prefix,
                   namespace_prefix, envList, idx, collected>>

\* lines 171-174: the filter strategy, if one is configured
Filtered(obj, normal_results) ==
    IF Truthy(obj.AWS_SSM_NAMESPACE_FILTER_STRATEGY)
    THEN NamespaceFilter(obj.AWS_SSM_NAMESPACE_FILTER_STRATEGY.s, normal_results)
    ELSE normal_results

\* lines 163-180: the non-namespaced fetch and its write
LoadNormal ==
    /\ pc = "env"
    /\ args.key = None
    /\ \E fault \in Faults \cup {NoFault} :
       \E page \in FaultPages(ssm,
                      BasePath(project_prefix.s, EnvAt(envList, idx), None), fault) :
         LET env_name == EnvAt(envList, idx)
             r == _fetch_all_parameters(ssm, fault, page, project_prefix.s,
                                        env_name, None, args.silent)
         IN  /\ logs' = logs \o r.logs
             /\ collected' = r.data
             /\ storeCalls' = storeCalls \o r.calls
             /\ IF IsRaise(r.ret)
                THEN /\ pc' = "raised"
                     /\ exc' = r.ret.e
                     /\ UNCHANGED <<sdata, writes, idx>>
                ELSE /\ IF Truthy(r.ret)
                        THEN /\ sdata' = SettingsUpdate(sdata, Filtered(conf, r.ret))
                             /\ writes' = Append(writes,
                                    WriteRec(idx, "normal", Filtered(conf, r.ret),
                                             LoaderIdentifier(env_name)))
                        ELSE UNCHANGED <<sdata, writes>>
                     /\ IF namespace_prefix # None
                        THEN pc' = "ns" /\ UNCHANGED idx
                        ELSE pc' = AfterEnv(idx) /\ idx' = idx + 1
                     /\ UNCHANGED exc
             /\ fetches' = Append(fetches,
                    FetchRec(idx, "normal", fault, r.ret, sdata, sdata'))
    /\ UNCHANGED <<conf, osenv, conf0, ssm, region, args, project_prefix,
                   namespace_prefix, envList>>

\* a loader that never writes the namespaced subtree
NamespacedWriteSkipped(data, namespaced_results) == data

\* lines 191-196
NamespacedWrite(data, namespaced_results) ==
    IF Truthy(namespaced_results) THEN SettingsUpdate(data, namespaced_results)
    ELSE data

\* lines 182-196: the namespaced fetch and its write
LoadNamespaced ==
    /\ pc = "ns"
    /\ \E fault \in Faults \cup {NoFault} :
       \E page \in FaultPages(ssm,
                      BasePath(project_prefix.s, EnvAt(envList, idx),
                               namespace_prefix), fault) :
         LET env_name == EnvAt(envList, idx)
             r == _fetch_all_parameters(ssm, fault, page, project_prefix.s,
                                        env_name, namespace_prefix, args.silent)
         IN  /\ logs' = logs \o r.logs
             /\ collected' = r.data
             /\ storeCalls' = storeCalls \o r.calls
             /\ IF IsRaise(r.ret)
                THEN /\ pc' = "raised"
                     /\ exc' = r.ret.e
                     /\ UNCHANGED <<sdata, writes, idx>>
                ELSE /\ sdata' = NamespacedWrite(sdata, r.ret)
                     /\ writes' = IF Truthy(r.ret)
                                  THEN Append(writes, WriteRec(idx, "ns", r.ret,
                                                  LoaderIdentifier(env_name)))
                                  ELSE writes
                     /\ pc' = AfterEnv(idx)
                     /\ idx' = idx + 1
                     /\ UNCHANGED exc
             /\ fetches' = Append(fetches,
                    FetchRec(idx, "ns", fault, r.ret, sdata, sdata'))
    /\ UNCHANGED <<conf, osenv, conf0, ssm, region, args, project_prefix,
                   namespace_prefix, envList>>

(***************************************************************************)
(* Specifications                                                          *)
(***************************************************************************)
vars == <<dData, dOut, dGrouped, elObj, elEnv, elOut, fStore, fArgs, fOut,
          pKey, pEnv, pObj, pOut, conf, sdata, osenv, conf0, ssm, region, args,
          pc, project_prefix, namespace_prefix,
          envList, idx, exc, logs, storeCalls, fetches, collected, writes>>

DecodeIdle == dData = <<>> /\ dOut = Pending /\ dGrouped = Pending
EnvListIdle ==
    /\ elObj = [SSM_LOAD_DEFAULT_ENV_FOR_DYNACONF |-> None,
                DEFAULT_ENV_FOR_DYNACONF |-> None]
    /\ elEnv = None
    /\ elOut = Pending
FetchIdle ==
    /\ fStore = StoreEmpty
    /\ fArgs = [project_prefix |-> ProjP, env |-> EnvD, ns |-> None, key |-> KeyK,
                silent |-> TRUE]
    /\ fOut = Pending

PullIdle ==
    /\ pKey = "SSM_PARAMETER_PROJECT_PREFIX_FOR_DYNACONF"
    /\ pEnv = [k \in PullKeys |-> None]
    /\ pObj = [k \in PullKeys |-> None]
    /\ pOut = Pending

LoadIdle ==
    /\ conf = [SSM_PARAMETER_PROJECT_PREFIX_FOR_DYNACONF |-> None,
               SSM_PARAMETER_NAMESPACE_FOR_DYNACONF |-> None,
               SSM_LOAD_DEFAULT_ENV_FOR_DYNACONF |-> None,
               DEFAULT_ENV_FOR_DYNACONF |-> None,
               AWS_SSM_NAMESPACE_FILTER_STRATEGY |-> None,
               current_env |-> Str(EnvD)]
    /\ osenv = [SSM_PARAMETER_PROJECT_PREFIX_FOR_DYNACONF |-> None,
                SSM_PARAMETER_NAMESPACE_FOR_DYNACONF |-> None]
    /\ conf0 = conf
    /\ sdata = InitialData
    /\ ssm = StoreEmpty
    /\ region = TRUE
    /\ args = [env |-> None, silent |-> TRUE, key |-> None]
    /\ pc = "idle"
    /\ project_prefix = None
    /\ namespace_prefix = None
    /\ envList = <<>>
    /\ idx = 0
    /\ exc = ""
    /\ logs = <<>>
    /\ storeCalls = <<>>
    /\ fetches = <<>>
    /\ collected = <<>>
    /\ writes = <<>>

\* slashes_to_dict on its own
InitDecode == DecodeInit /\ EnvListIdle /\ FetchIdle /\ PullIdle /\ LoadIdle
NextDecode == Decode /\ UNCHANGED <<elVars, fVars, pVars, loadVars>>
SpecDecode == InitDecode /\ [][NextDecode]_vars

\* build_env_list on its own
InitEnvList == DecodeIdle /\ EnvListInit /\ FetchIdle /\ PullIdle /\ LoadIdle
NextEnvList == BuildEnvList /\ UNCHANGED <<decVars, fVars, pVars, loadVars>>
SpecEnvList == InitEnvList /\ [][NextEnvList]_vars

\* the fetch functions on their own
InitFetch == DecodeIdle /\ EnvListIdle /\ FetchInit /\ PullIdle /\ LoadIdle
NextFetch ==
    \/ FetchSingle /\ UNCHANGED <<decVars, elVars, pVars, loadVars>>
    \/ FetchAll /\ UNCHANGED <<decVars, elVars, pVars, loadVars>>
SpecFetch == InitFetch /\ [][NextFetch]_vars

\* pull_from_env_or_obj on its own
InitPull == DecodeIdle /\ EnvListIdle /\ FetchIdle /\ PullInit /\ LoadIdle
NextPull == Pull /\ UNCHANGED <<decVars, elVars, fVars, loadVars>>
SpecPull == InitPull /\ [][NextPull]_vars

\* one call of load
Init == DecodeIdle /\ EnvListIdle /\ FetchIdle /\ PullIdle /\ LoadInit
Next ==
    \/ GetClient /\ UNCHANGED <<decVars, elVars, fVars, pVars>>
    \/ Resolve /\ UNCHANGED <<decVars, elVars, fVars, pVars>>
    \/ LoadKey /\ UNCHANGED <<decVars, elVars, fVars, pVars>>
    \/ LoadNormal /\ UNCHANGED <<decVars, elVars, fVars, pVars>>
    \/ LoadNamespaced /\ UNCHANGED <<decVars, elVars, fVars, pVars>>
Spec == Init /\ [][Next]_vars

(***************************************************************************)
(* Properties of the decoder                                               *)
(***************************************************************************)
DecodeDone == dOut # Pending

\* the segments of a path
Segs(p) == Split(Strip(p, Slash), Slash)

IsStrictPrefix(a, b) == Len(a) < Len(b) /\ SubSeq(b, 1, Len(a)) = a

\* every (path, value) item of the records
Items(data) == { data[i][j] : i \in DOMAIN data, j \in {1} }

\* no path is a strict segment-prefix of another
NoCollision(data) ==
    \A p, q \in Items(data) : ~IsStrictPrefix(Segs(p[1]), Segs(q[1]))

\* no path occurs twice with two values
NoRewrite(data) ==
    \A p, q \in Items(data) : Segs(p[1]) = Segs(q[1]) => p[2] = q[2]

\* the (stripped path, value) pairs of the records
Originals(data) == { <<Strip(p[1], Slash), p[2]>> : p \in Items(data) }

\* the leaves of a tree, each with the keys on the way to it joined by "/"
RECURSIVE FlattenAt(_, _)
FlattenAt(node, prefix) ==
    IF IsDict(node)
    THEN UNION { FlattenAt(node.m[k], Append(prefix, k)) : k \in DOMAIN node.m }
    ELSE { <<Join(prefix, Slash), node>> }

Flatten(tree) == FlattenAt(tree, <<>>)

\* C1 as stated: for records with no ancestor/leaf collision, re-flattening
\* the decoded tree yields exactly the original (stripped path, value) pairs.
C1_RoundTripAsStated ==
    (DecodeDone /\ NoCollision(dData)) =>
        (IsDict(dOut) /\ Flatten(dOut) = Originals(dData))

\* C1 as amended: the round trip holds for records with no ancestor/leaf
\* collision in which no path is given twice with two different values.
C1_RoundTrip ==
    (DecodeDone /\ NoCollision(dData) /\ NoRewrite(dData)) =>
        (IsDict(dOut) /\ Flatten(dOut) = Originals(dData))

\* three collision-free records, two sharing an intermediate node, decoded
C1_Witness ==
    /\ DecodeDone
    /\ Len(dData) = 3
    /\ NoCollision(dData) /\ NoRewrite(dData)
    /\ Cardinality(Originals(dData)) = 3
    /\ IsDict(dOut)
    /\ <<"a">> \in DOMAIN dOut.m
    /\ IsDict(dOut.m[<<"a">>])
    /\ {<<"b">>, <<"c">>} \subseteq DOMAIN dOut.m[<<"a">>].m

\* Last write wins, as the specification describes a collision: a leaf that a
\* later record needs as an intermediate node is replaced by a mapping.
RECURSIVE LastWritePut(_, _, _)
LastWritePut(node, segs, value) ==
    LET k == segs[1]
        child == IF k \in DOMAIN node.m /\ IsDict(node.m[k])
                 THEN node.m[k] ELSE EmptyDict
        new == IF Len(segs) = 1 THEN value
               ELSE LastWritePut(child, Tail(segs), value)
    IN Dict([j \in DOMAIN node.m \cup {k} |-> IF j = k THEN new ELSE node.m[j]])

RECURSIVE LastWriteWins(_, _)
LastWriteWins(node, data) ==
    IF data = <<>> THEN node
    ELSE LastWriteWins(LastWritePut(node, Segs(data[1][1][1]), data[1][1][2]),
                       Tail(data))

\* C2: when records collide (leaf then intermediate node, or intermediate
\* node then leaf) the call raises no error and the last write wins.
C2_CollisionLastWriteWins ==
    (DecodeDone /\ ~NoCollision(dData)) =>
        (~IsRaise(dOut) /\ dOut = LastWriteWins(EmptyDict, dData))

\* C2, the direction the code does implement: with two records, a path used
\* as an intermediate node and then assigned as a leaf ends as that leaf.
C2_NodeThenLeaf ==
    (DecodeDone /\ Len(dData) = 2
        /\ IsStrictPrefix(Segs(dData[2][1][1]), Segs(dData[1][1][1]))) =>
        (~IsRaise(dOut) /\ dOut = LastWriteWins(EmptyDict, dData))

(***************************************************************************)
(* Properties of build_env_list                                            *)
(***************************************************************************)
EnvListDone == elOut # Pending

NoDuplicates(seq) == \A i, j \in DOMAIN seq : seq[i] = seq[j] => i = j

\* lower-cased and whitespace-trimmed
NormalName(s) == Strip(Lower(s), Space)

\* the list the specification describes: the default environment name if the
\* flag is true, then the requested environment if distinct, each normalised
ClaimedEnvList(obj, env) ==
    LET flag == ObjGet(obj, "SSM_LOAD_DEFAULT_ENV_FOR_DYNACONF", PyBool(TRUE)) = PyBool(TRUE)
        name == ObjGet(obj, "DEFAULT_ENV_FOR_DYNACONF", Str(DefaultEnvName))
        first == IF flag /\ Truthy(name) THEN <<NormalName(name.s)>> ELSE <<>>
    IN  IF Truthy(env) /\ (\A i \in DOMAIN first : first[i] # NormalName(env.s))
        THEN Append(first, NormalName(env.s))
        ELSE first

\* C9: build_env_list returns the default environment name (if the flag is
\* true) followed by the requested environment (if distinct), each lower-cased
\* and trimmed, with no duplicate entries.
C9_EnvListAsStated ==
    EnvListDone =>
        (NoDuplicates(elOut.l) /\ elOut.l = ClaimedEnvList(elObj, elEnv))

\* C9 for names that carry no surrounding whitespace: there the list is the
\* claimed one and holds no duplicates.
C9_EnvListTrimmedNames ==
    (EnvListDone
        /\ (elEnv # None => Strip(elEnv.s, Space) = elEnv.s)
        /\ (elObj.DEFAULT_ENV_FOR_DYNACONF # None =>
                Strip(elObj.DEFAULT_ENV_FOR_DYNACONF.s, Space) = elObj.DEFAULT_ENV_FOR_DYNACONF.s)) =>
        (NoDuplicates(elOut.l) /\ elOut.l = ClaimedEnvList(elObj, elEnv))

(***************************************************************************)
(* Properties of the fetch functions                                       *)
(***************************************************************************)
FetchDone == fOut # Pending

\* the fault the store reported to the call, NoFault if it answered
ReportedFault ==
    IF fOut.fault # NoFault THEN fOut.fault
    ELSE IF fOut.op = "single"
            /\ \A i \in DOMAIN fStore :
                  fStore[i].name # BasePath(fArgs.project, fArgs.env, fArgs.ns)
                                      \o <<Slash>> \o fArgs.key
    THEN "ParameterNotFound"
    ELSE NoFault

\* C6: when the store reports not-found or a transport error, both fetch
\* functions return None without raising in tolerant mode and propagate the
\* fault in strict mode.
C6_FaultHandling ==
    (FetchDone /\ ReportedFault # NoFault) =>
        /\ fArgs.silent => fOut.res.ret = None
        /\ ~fArgs.silent => fOut.res.ret = Raise(ReportedFault)

\* a subtree fetch whose store call failed in tolerant mode
C6_Witness ==
    /\ FetchDone
    /\ fOut.op = "all"
    /\ fOut.fault = "EndpointConnectionError"
    /\ fArgs.silent
    /\ fOut.res.ret = None

\* the tree _fetch_all_parameters decodes before it prunes
FetchedTree ==
    parse_conf_data(slashes_to_dict(
        AsRecords(UnderPath(fStore, BasePath(fArgs.project, fArgs.env, fArgs.ns)))))

\* descend through seg if that key exists at the root of tree, else leave it
PruneBy(tree, seg) ==
    IF IsDict(tree) /\ seg \in DOMAIN tree.m THEN tree.m[seg] ELSE tree

PruneByNs(tree, ns) == IF ns = None THEN tree ELSE PruneBy(tree, ns.s)

SubtreeFetched ==
    /\ FetchDone
    /\ fOut.op = "all"
    /\ fOut.fault = NoFault
    /\ ~IsRaise(fOut.res.ret)

\* C10 as stated: the result is the decoded tree pruned by the project, the
\* environment and the namespace segment, each descent taken if and only if
\* the segment key exists at the current root.
C10_PruneAsStated ==
    SubtreeFetched =>
        fOut.res.ret = PruneByNs(PruneBy(PruneBy(FetchedTree, fArgs.project),
                                         fArgs.env), fArgs.ns)

\* C10 as amended: the environment and namespace descents are tried only
\* after the project descent was taken; without the project segment at the
\* root the decoded tree is returned as it is.
C10_Prune ==
    SubtreeFetched =>
        fOut.res.ret =
            IF fArgs.project \in DOMAIN FetchedTree.m
            THEN PruneByNs(PruneBy(FetchedTree.m[fArgs.project], fArgs.env), fArgs.ns)
            ELSE FetchedTree

\* a fetched tree without the project segment at its root, returned unpruned
C10_Witness ==
    /\ SubtreeFetched
    /\ DOMAIN FetchedTree.m # {}
    /\ fArgs.project \notin DOMAIN FetchedTree.m
    /\ fArgs.env \in DOMAIN FetchedTree.m
    /\ fOut.res.ret = FetchedTree

\* the three descents taken: the namespaced subtree of the default environment
C10_WitnessDescended ==
    /\ SubtreeFetched
    /\ fArgs.ns = Str(NsN)
    /\ fOut.res.ret = Dict([k \in {<<"b">>, <<"d">>} |->
                              IF k = <<"d">> THEN PyInt(4)
                              ELSE Dict([j \in {<<"c">>} |-> PyInt(3)])])

(***************************************************************************)
(* Properties of load                                                      *)
(***************************************************************************)
Terminal == pc \in {"returned", "raised"}

FullLoad == args.key = None /\ project_prefix # None

\* a fetch result as a tree: None and other non-mappings hold no keys
TreeOf(v) == IF IsDict(v) THEN v ELSE EmptyDict

\* the leaves of a tree, each with the sequence of keys on the way to it
RECURSIVE LeavesAt(_, _)
LeavesAt(node, prefix) ==
    IF IsDict(node)
    THEN UNION { LeavesAt(node.m[k], Append(prefix, k)) : k \in DOMAIN node.m }
    ELSE { <<prefix, node>> }

Leaves(tree) == LeavesAt(tree, <<>>)

\* two leaf paths conflict when one is the other or lies under it
Conflicting(p, q) == p = q \/ IsStrictPrefix(p, q) \/ IsStrictPrefix(q, p)

\* merged holds every leaf of upper, and every leaf of lower that conflicts
\* with no leaf of upper
MergedLeaves(lower, upper, merged) ==
    /\ Leaves(upper) \subseteq Leaves(merged)
    /\ \A l \in Leaves(lower) :
         (\A u \in Leaves(upper) : ~Conflicting(l[1], u[1])) => l \in Leaves(merged)

\* the namespaced fetches of a full load that returned
NamespacedRounds ==
    { j \in DOMAIN fetches : fetches[j].kind = "ns" /\ ~IsRaise(fetches[j].ret) }

KeyPresent(i) ==
    \E n \in DOMAIN ssm :
        ssm[n].name = BasePath(project_prefix.s, Lower(envList[i]), namespace_prefix)
                          \o <<Slash>> \o args.key.s

\* the store's value of the key in the environment at position i
KeyValue(i) ==
    LET n == CHOOSE n \in DOMAIN ssm :
                 ssm[n].name = BasePath(project_prefix.s, Lower(envList[i]),
                                        namespace_prefix) \o <<Slash>> \o args.key.s
    IN ParseStr(ssm[n].value)

\* the first position of the list whose environment holds the key, else 0
FirstPresent ==
    IF \E i \in DOMAIN envList : KeyPresent(i)
    THEN CHOOSE i \in DOMAIN envList :
             KeyPresent(i) /\ \A h \in 1..(i - 1) : ~KeyPresent(h)
    ELSE 0

\* the positions queried, in the order of the queries
Queried == [j \in DOMAIN fetches |-> fetches[j].i]

\* C4: a single-key load that returned without a store fault queried the
\* environments in list order up to the first one holding the key and wrote
\* that value under the key; it queried all of them when none holds it.
C4_FirstPresentWritten ==
    (pc = "returned" /\ args.key # None /\ project_prefix # None
        /\ \A j \in DOMAIN fetches : fetches[j].fault = NoFault) =>
        IF FirstPresent = 0
        THEN /\ Queried = [j \in DOMAIN envList |-> j]
             /\ sdata = InitialData
        ELSE /\ Queried = [j \in 1..FirstPresent |-> j]
             /\ sdata = SettingsSet(InitialData, args.key.s, KeyValue(FirstPresent))

\* the project prefix is in neither the settings object nor the environment
PrefixAbsent == conf[PrefixKey] = None /\ osenv[PrefixKey] = None

C5_WitnessNoRegion ==
    /\ PrefixAbsent
    /\ ~region /\ args.silent
    /\ pc = "returned"

\* the fetch that the j-th store call of a full load is
SlotAt(j) ==
    IF namespace_prefix = None THEN [i |-> j, kind |-> "normal"]
    ELSE [i |-> (j + 1) \div 2, kind |-> IF j % 2 = 1 THEN "normal" ELSE "ns"]

FetchesPerEnv == IF namespace_prefix = None THEN 1 ELSE 2

Written(i, kind) == \E k \in DOMAIN writes : writes[k].i = i /\ writes[k].kind = kind

\* C7: in tolerant mode a full load never raises a store fault; a fetch whose
\* store call failed returns None and leaves the settings alone, every fetch
\* that returned data is written, and a load that returned has made every
\* fetch of every environment of the list, in order.
C7_TolerantFullLoad ==
    (args.silent /\ FullLoad) =>
        /\ exc \notin Faults
        /\ \A j \in DOMAIN fetches :
             /\ fetches[j].i = SlotAt(j).i
             /\ fetches[j].kind = SlotAt(j).kind
             /\ fetches[j].fault # NoFault =>
                  /\ fetches[j].ret = None
                  /\ fetches[j].after = fetches[j].before
                  /\ ~Written(fetches[j].i, fetches[j].kind)
             /\ (fetches[j].fault = NoFault /\ ~IsRaise(fetches[j].ret)
                    /\ Truthy(fetches[j].ret)) =>
                  Written(fetches[j].i, fetches[j].kind)
        /\ (pc = "env" /\ fetches # <<>>) =>
             ~IsRaise(fetches[Len(fetches)].ret)
        /\ pc = "returned" => Len(fetches) = Len(envList) * FetchesPerEnv

\* the first fetch failed at the store; the three fetches after it were made
\* and written
C7_Witness ==
    /\ args.silent /\ FullLoad
    /\ pc = "returned"
    /\ Len(fetches) = 4
    /\ fetches[1].fault = "EndpointConnectionError"
    /\ Len(writes) = 3
    /\ sdata # InitialData

\* the position of a write in the order of the loop
Rank(w) == 2 * w.i + (IF w.kind = "ns" THEN 1 ELSE 0)

\* what a fetch of the environment at position i writes when the store answers
StoreTree(i, kind) ==
    LET r == _fetch_all_parameters(ssm, NoFault, 1, project_prefix.s,
                 Lower(envList[i]),
                 IF kind = "ns" THEN namespace_prefix ELSE None, TRUE).ret
    IN IF kind = "ns" THEN r ELSE Filtered(conf, r)

RECURSIVE ApplyWrites(_, _)
ApplyWrites(data, ws) ==
    IF ws = <<>> THEN data
    ELSE ApplyWrites(SettingsUpdate(data, ws[1].tree), Tail(ws))

\* C8: the writes of a full load are ordered by the position of their
\* environment in the list and, within an environment, non-namespaced before
\* namespaced; each is the subtree of that environment; the settings are the
\* writes applied in that order, so that a leaf is held unless a later write
\* conflicts with it.
C8_WriteOrder ==
    FullLoad =>
        /\ \A j, k \in DOMAIN writes : j < k => Rank(writes[j]) < Rank(writes[k])
        /\ \A j \in DOMAIN writes :
             /\ writes[j].kind \in {"normal", "ns"}
             /\ writes[j].i \in DOMAIN envList
             /\ writes[j].tree = StoreTree(writes[j].i, writes[j].kind)
             /\ \A l \in Leaves(writes[j].tree) :
                  (\A k \in DOMAIN writes : \A u \in Leaves(writes[k].tree) :
                       k > j => ~Conflicting(l[1], u[1]))
                  => l \in Leaves(sdata)
        /\ sdata = ApplyWrites(InitialData, writes)

\* the layered store: the development environment's non-namespaced b.c = 5,
\* written third, replaced the default environment's namespaced b.c = 3
C8_Witness ==
    /\ FullLoad
    /\ pc = "returned"
    /\ Len(writes) = 4
    /\ writes[2].kind = "ns" /\ writes[2].i = 1
    /\ <<<< <<"b">>, <<"c">> >>, PyInt(3)>> \in Leaves(writes[2].tree)
    /\ writes[3].kind = "normal" /\ writes[3].i = 2
    /\ <<<< <<"b">>, <<"c">> >>, PyInt(5)>> \in Leaves(writes[3].tree)
    /\ <<<< <<"b">>, <<"c">> >>, PyInt(5)>> \in Leaves(sdata)

(***************************************************************************)
(* Properties of pull_from_env_or_obj                                      *)
(***************************************************************************)
PullDone == pOut # Pending

\* C11 as stated: the settings object is asked first and the environment
\* second; the value found is returned and the settings object holds it.
C11_ObjFirstAsStated ==
    PullDone =>
        LET resolved == IF pObj[pKey] # None THEN pObj[pKey] ELSE pEnv[pKey]
        IN  /\ pOut.res.value = resolved
            /\ pOut.res.obj[pKey] = resolved

\* C11 as amended: the environment is asked first; a value it holds (any
\* value but None, the empty string included) is returned and set on the
\* settings object; otherwise the settings object's value is returned and
\* the settings object is left as it is.  No other key is touched.
C11_EnvFirst ==
    PullDone =>
        /\ pOut.res.value = IF pEnv[pKey] # None THEN pEnv[pKey] ELSE pObj[pKey]
        /\ pOut.res.obj[pKey] = pOut.res.value
        /\ pEnv[pKey] = None => pOut.res.obj = pObj
        /\ \A k \in PullKeys \ {pKey} : pOut.res.obj[k] = pObj[k]

\* both hold a value for the key, and they differ: the environment's is
\* returned and replaces the settings object's
C11_Witness ==
    /\ PullDone
    /\ pEnv[pKey] = Str(<<"p">>)
    /\ pObj[pKey] = Str(<<"q">>)
    /\ pOut.res.value = Str(<<"p">>)
    /\ pOut.res.obj[pKey] = Str(<<"p">>)

(***************************************************************************)
(* Properties of the fetch functions: logging                              *)
(***************************************************************************)
\* the levels of the log records a fetch wrote
LoggedLevels == { fOut.res.logs[i].level : i \in DOMAIN fOut.res.logs }

\* C12: in tolerant mode a fetch whose store call reported not-found returns
\* None after writing an info record, and one whose store call failed in
\* transport returns None after writing an error record.
C12_SwallowedFailureLogged ==
    (FetchDone /\ fArgs.silent) =>
        /\ ReportedFault = "ParameterNotFound" =>
             (fOut.res.ret = None /\ "info" \in LoggedLevels)
        /\ ReportedFault \in BotoCoreErrors =>
             (fOut.res.ret = None /\ "error" \in LoggedLevels)

\* C12, what the code does: the info and error records are written only in
\* strict mode, before the fault is re-raised; in tolerant mode a failed
\* fetch writes nothing but the debug record that precedes the store call.
C12_LoggedOnlyWhenStrict ==
    (FetchDone /\ ReportedFault # NoFault) =>
        /\ fArgs.silent => LoggedLevels = {"debug"}
        /\ (~fArgs.silent /\ ReportedFault = "ParameterNotFound") =>
             LoggedLevels = {"debug", "info"}
        /\ (~fArgs.silent /\ ReportedFault \in BotoCoreErrors) =>
             LoggedLevels = {"debug", "error"}

(***************************************************************************)
(* Properties of load: the single-key branch                               *)
(***************************************************************************)
\* a single-key load that returned after the store answered with the key's
\* parameter in the first environment of the list
KeyAnswered ==
    /\ pc = "returned"
    /\ args.key # None
    /\ project_prefix # None
    /\ fetches # <<>>
    /\ fetches[1].fault = NoFault
    /\ KeyPresent(1)

KeyWritten(value) ==
    /\ args.key.s \in DOMAIN sdata.m
    /\ sdata.m[args.key.s] = value

\* C13: every value the store returns as present for the key is written
\* under the key, a value that coerces to a falsy result included.
C13_PresentValueWritten ==
    KeyAnswered => KeyWritten(KeyValue(1))

\* C13, what the code does: the value is written when it coerces to a truthy
\* result, and the settings are left as they were when it coerces to a falsy
\* one.
C13_TruthyValueWritten ==
    KeyAnswered =>
        IF Truthy(KeyValue(1)) THEN KeyWritten(KeyValue(1))
        ELSE sdata = InitialData

(***************************************************************************)
(* Properties of load: the filter strategy                                 *)
(***************************************************************************)
\* sub occurs in s as a run of consecutive characters
Occurs(sub, s) ==
    \E a \in 0..(Len(s) - Len(sub)) : SubSeq(s, a + 1, a + Len(sub)) = sub

\* the top-level entries of tree whose key does not contain prefix
KeptEntries(prefix, tree) ==
    Dict([k \in { j \in DOMAIN tree.m : ~Occurs(prefix, j) } |-> tree.m[k]])

\* the write of the fetch at position j of the history, if there is one
WritesOf(j) ==
    { k \in DOMAIN writes :
        writes[k].i = fetches[j].i /\ writes[k].kind = fetches[j].kind }

\* the fetches of a full load that returned a tree with keys
FetchedTrees ==
    { j \in DOMAIN fetches : IsDict(fetches[j].ret) /\ Truthy(fetches[j].ret) }

\* C14: with a filter configured the non-namespaced update gets exactly the
\* top-level entries of the fetched tree whose key does not contain the
\* prefix, values unchanged, and the settings are updated with that tree;
\* the namespaced update gets the fetched tree as it is.
C14_FilterBeforeWrite ==
    (FullLoad /\ Truthy(conf.AWS_SSM_NAMESPACE_FILTER_STRATEGY)) =>
        \A j \in FetchedTrees :
            LET passed == IF fetches[j].kind = "normal"
                          THEN KeptEntries(conf.AWS_SSM_NAMESPACE_FILTER_STRATEGY.s,
                                           fetches[j].ret)
                          ELSE fetches[j].ret
            IN  /\ Cardinality(WritesOf(j)) = 1
                /\ \A k \in WritesOf(j) : writes[k].tree = passed
                /\ fetches[j].after = SettingsUpdate(fetches[j].before, passed)

\* the development environment holds k, un and the namespace n: the filter
\* took n and un away before the write, the namespaced {k: y} was written whole
C14_Witness ==
    /\ FullLoad
    /\ conf.AWS_SSM_NAMESPACE_FILTER_STRATEGY = Str(NsN)
    /\ \E j \in FetchedTrees :
         /\ fetches[j].kind = "normal"
         /\ DOMAIN fetches[j].ret.m = {KeyK, NsN, <<"u", "n">>}
         /\ \E k \in WritesOf(j) : DOMAIN writes[k].tree.m = {KeyK}
    /\ \E j \in FetchedTrees :
         /\ fetches[j].kind = "ns"
         /\ \E k \in WritesOf(j) : writes[k].tree = fetches[j].ret
         /\ KeyK \in DOMAIN fetches[j].after.m
         /\ fetches[j].after.m[KeyK] = Str(<<"y">>)

(***************************************************************************)
(* Properties of load: a subtree fetch that fails between two pages        *)
(***************************************************************************)
LastFetch == fetches[Len(fetches)]

\* the path of the last subtree fetch
LastPath ==
    BasePath(project_prefix.s, Lower(envList[LastFetch.i]),
             IF LastFetch.kind = "ns" THEN namespace_prefix ELSE None)

\* C15: in tolerant mode a subtree fetch whose paging failed, on whatever
\* page and with whatever collected before it, returns None and nothing of
\* it is written; a fetch that returns a tree has collected every record
\* under its path.
C15_NoPartialTree ==
    (args.silent /\ FullLoad /\ fetches # <<>>) =>
        /\ LastFetch.fault # NoFault =>
             /\ LastFetch.ret = None
             /\ LastFetch.after = LastFetch.before
             /\ sdata = LastFetch.before
             /\ ~Written(LastFetch.i, LastFetch.kind)
        /\ IsDict(LastFetch.ret) =>
             collected = AsRecords(UnderPath(ssm, LastPath))

\* the store failed on the third page of the default environment's subtree,
\* after two pages had delivered a record each
C15_Witness ==
    /\ args.silent /\ FullLoad
    /\ fetches # <<>>
    /\ LastFetch.fault = "EndpointConnectionError"
    /\ Len(collected) = 2
    /\ Len(UnderPath(ssm, LastPath)) > 2
    /\ LastFetch.ret = None
    /\ sdata = LastFetch.before
    /\ writes = <<>>

(***************************************************************************)
(* Properties of load: what a missing project prefix leaves behind         *)
(***************************************************************************)
\* load raised because the project prefix is missing
PrefixFailure == pc = "raised" /\ exc = "ValueError"

\* C16: when load fails because the project prefix is missing, no store call
\* was issued and the settings object, its configuration keys and its values,
\* is as it was before the call.
C16_FailureLeavesNoTrace ==
    PrefixFailure =>
        /\ storeCalls = <<>>
        /\ fetches = <<>>
        /\ sdata = InitialData
        /\ conf = conf0

\* C16, what the code does: no store call and no value written, but the
\* namespace found in the environment has been set on the settings object.
C16_NamespaceSetBeforeFailure ==
    PrefixFailure =>
        /\ storeCalls = <<>>
        /\ fetches = <<>>
        /\ sdata = InitialData
        /\ conf = IF osenv[NamespaceKey] # None
                  THEN [conf0 EXCEPT ![NamespaceKey] = osenv[NamespaceKey]]
                  ELSE conf0

(***************************************************************************)
(* Properties of load: the namespace segment as a key of the settings      *)
(***************************************************************************)
\* a full load with a namespace that returned
NamespacedLoadDone == FullLoad /\ namespace_prefix # None /\ pc = "returned"

\* C17: after a full load with a namespace configured the namespace segment
\* is not a top-level key of the settings object, with or without a filter.
C17_NamespaceNotAKey ==
    NamespacedLoadDone => namespace_prefix.s \notin DOMAIN sdata.m

\* C17, what the code does: the segment is kept out only by a filter for it;
\* without one it is a top-level key whenever a non-namespaced fetch that was
\* written found records under the namespace.
C17_NamespaceKeptOutByFilter ==
    NamespacedLoadDone =>
        IF conf.AWS_SSM_NAMESPACE_FILTER_STRATEGY = namespace_prefix
        THEN namespace_prefix.s \notin DOMAIN sdata.m
        ELSE namespace_prefix.s \in DOMAIN sdata.m <=>
                 \E k \in DOMAIN writes :
                     /\ writes[k].kind = "normal"
                     /\ namespace_prefix.s \in DOMAIN writes[k].tree.m

(***************************************************************************)
(* Properties of the decoder: how the pairs are grouped into mappings      *)
(***************************************************************************)
\* no key occurs in two records
KeysDistinct(data) ==
    \A i, j \in DOMAIN data : data[i][1][1] = data[j][1][1] => i = j

\* C18: collision-free pairs decode to the same tree whether each is a
\* record of its own or all are the items of one mapping.
C18_GroupingIrrelevant ==
    (DecodeDone /\ NoCollision(dData) /\ KeysDistinct(dData)) =>
        dGrouped = dOut

\* C18, what the code does: cur_dict is set to the root once for a mapping,
\* not once for a key, so the grouping is irrelevant only while cur_dict
\* stays at the root, that is when every path has a single segment.
C18_GroupingOfSingleSegments ==
    (DecodeDone /\ KeysDistinct(dData)
        /\ \A p \in Items(dData) : Len(Segs(p[1])) = 1) =>
        dGrouped = dOut

=============================================================================
